---- MODULE Spec2Model ----
(***************************************************************************)
(* de-ai-agent: the commit-msg hook of src/de_ai_agent/hook.py.            *)
(*                                                                         *)
(* A commit message is a sequence of atoms.  An atom is one character or   *)
(* one literal chunk of characters that the patterns of hook.py treat as   *)
(* a unit; the atoms are chosen so that no pattern literal can arise       *)
(* across the border of two atoms:                                         *)
(*   "\n"               the newline character                              *)
(*   " "                a blank (whitespace other than newline)            *)
(*   "Jane"             a word holding no AI agent or tool name            *)
(*   "Co-Authored-By:"  the trailer key, as written                        *)
(*   "Claude" "claude"  an agent name in both vocabularies, two spellings  *)
(*   "GPT"              an agent name of the co-author vocabulary only     *)
(*   "AI"               a tool name of the branding vocabulary only        *)
(*   "Code"             the second word of the label "Claude Code"         *)
(*   "Generated with"   the branding phrase                                *)
(*   "MOJI"             the marker as hook.py:52 spells it (the four       *)
(*                      characters U+00F0 U+0178 U+00A4 U+2013)            *)
(*   "ROBOT"            the robot emoji U+1F916, as the tests write it     *)
(*   "["  "]("  ")"     the punctuation of a markdown link                 *)
(***************************************************************************)
EXTENDS Integers, Sequences, FiniteSets, TLC

VARIABLES
    \* one call of sanitize_commit_message, and a second run on its result
    text, keep_coauthor, keep_branding, result, removed, pc, rerun,
    \* one run of main: its position, its arguments, the world around it
    \* (the commit message file, the three streams, the exit status) and
    \* its local variables
    mpc, args, file, stdin, stdout, stderr, status,
    original_message, cleaned_message, main_removed

vars == <<text, keep_coauthor, keep_branding, result, removed, pc, rerun,
          mpc, args, file, stdin, stdout, stderr, status,
          original_message, cleaned_message, main_removed>>

sanVars == <<text, keep_coauthor, keep_branding, result, removed, pc, rerun>>

mainVars == <<mpc, args, file, stdin, stdout, stderr, status,
              original_message, cleaned_message, main_removed>>

(***************************************************************************)
(* Bounds of the model.                                                    *)
(***************************************************************************)
MaxPieces == 4

MaxMainPieces == 3

MaxLines == 4

(***************************************************************************)
(* Characters.                                                             *)
(***************************************************************************)
NL == "\n"

SP == " "

\* str.lower() as re.IGNORECASE applies it to both sides
Fold(a) ==
    CASE a = "Claude" -> "claude"
      [] a = "GPT" -> "gpt"
      [] a = "AI" -> "ai"
      [] a = "Code" -> "code"
      [] a = "Co-Authored-By:" -> "co-authored-by:"
      [] a = "Generated with" -> "generated with"
      [] a = "Jane" -> "jane"
      [] OTHER -> a

\* \s of the patterns and the characters str.rstrip() strips
IsSpace(a) == a \in {NL, SP}

\* index of the last atom of the line that position i starts ('.' stops at "\n")
RECURSIVE LineEnd(_, _)
LineEnd(t, i) ==
    IF i > Len(t) \/ t[i] = NL THEN i - 1 ELSE LineEnd(t, i + 1)

(***************************************************************************)
(* re: non-overlapping leftmost matches.  ends[i] is the index of the last *)
(* atom of the match that starts at i, or 0 when the pattern does not      *)
(* match at i.  No pattern of hook.py matches the empty string.            *)
(***************************************************************************)
RECURSIVE Spans(_, _, _)
Spans(ends, i, n) ==
    IF i > n THEN <<>>
    ELSE IF ends[i] >= i THEN <<<<i, ends[i]>>>> \o Spans(ends, ends[i] + 1, n)
    ELSE Spans(ends, i + 1, n)

\* pattern.findall(t)
findall(t, ends) ==
    LET sp == Spans(ends, 1, Len(t))
    IN  [k \in 1..Len(sp) |-> SubSeq(t, sp[k][1], sp[k][2])]

\* pattern.sub("", t)
RECURSIVE subFrom(_, _, _)
subFrom(t, ends, i) ==
    IF i > Len(t) THEN <<>>
    ELSE IF ends[i] >= i THEN subFrom(t, ends, ends[i] + 1)
    ELSE <<t[i]>> \o subFrom(t, ends, i + 1)

\* every match is replaced by a blank instead of by nothing
sub_with_blank(t, ends) ==
    LET from[i \in 1..(Len(t) + 1)] ==
            IF i > Len(t) THEN <<>>
            ELSE IF ends[i] >= i THEN <<" ">> \o from[ends[i] + 1]
            ELSE <<t[i]>> \o from[i + 1]
    IN  from[1]

sub(t, ends) == subFrom(t, ends, 1)

\* re.sub(r"\n{3,}", "\n\n", t)
RECURSIVE collapse(_, _, _)
collapse(t, i, run) ==
    IF i > Len(t) THEN <<>>
    ELSE IF t[i] = NL
         THEN IF run >= 2 THEN collapse(t, i + 1, run + 1)
              ELSE <<NL>> \o collapse(t, i + 1, run + 1)
         ELSE <<t[i]>> \o collapse(t, i + 1, 0)

\* the blank lines are left as they are
keep_blank_lines(t) == t

collapse_blank_lines(t) == collapse(t, 1, 0)

\* str.rstrip()
RECURSIVE rstrip(_)
rstrip(t) ==
    IF t # <<>> /\ IsSpace(t[Len(t)]) THEN rstrip(SubSeq(t, 1, Len(t) - 1))
    ELSE t

\* the newline is appended to the text as it is, not to the trimmed text
terminate_untrimmed(t) == IF t # <<>> THEN Append(t, NL) ELSE <<>>

\* cleaned.rstrip() + "\n" if cleaned.rstrip() else ""
terminate(t) == IF rstrip(t) # <<>> THEN Append(rstrip(t), NL) ELSE <<>>

(***************************************************************************)
(* remove_coauthor                                                         *)
(***************************************************************************)
CoauthorNames == {"claude", "gpt", "copilot", "aider", "gemini", "cline",
                  "cody", "windsurf"}

\* the atom holds one of the agent names as a substring, whatever its case
HasCoauthorName(a) == Fold(a) \in CoauthorNames

\* the pattern without re.IGNORECASE
ai_coauthor_pattern_case_sensitive(t, i) ==
    IF /\ (i = 1 \/ t[i - 1] = NL)
       /\ t[i] = "Co-Authored-By:"
       /\ \E j \in (i + 1)..LineEnd(t, i) :
              t[j] \in {"Claude", "GPT", "Copilot", "Aider", "Gemini", "Cline",
                        "Cody", "Windsurf"}
    THEN LineEnd(t, i) ELSE 0

\* ^Co-Authored-By:.*(?:Claude|GPT|...).*$  with MULTILINE | IGNORECASE
ai_coauthor_pattern(t, i) ==
    IF /\ (i = 1 \/ t[i - 1] = NL)
       /\ Fold(t[i]) = "co-authored-by:"
       /\ \E j \in (i + 1)..LineEnd(t, i) : HasCoauthorName(t[j])
    THEN LineEnd(t, i) ELSE 0

\* every Co-Authored-By: line is removed, whoever it names
remove_every_trailer(t) ==
    LET ends == [i \in 1..Len(t) |->
                     IF /\ (i = 1 \/ t[i - 1] = NL)
                        /\ Fold(t[i]) = "co-authored-by:"
                     THEN LineEnd(t, i) ELSE 0]
        removed_lines == findall(t, ends)
        cleaned == collapse_blank_lines(sub(t, ends))
    IN  <<terminate(cleaned), removed_lines>>

\* each matched line is removed together with the newline that ends it
remove_coauthor_with_terminator(t) ==
    LET ends == [i \in 1..Len(t) |->
                     IF /\ (i = 1 \/ t[i - 1] = NL)
                        /\ Fold(t[i]) = "co-authored-by:"
                        /\ \E j \in (i + 1)..LineEnd(t, i) :
                               Fold(t[j]) \in {"claude", "gpt", "copilot",
                                               "aider", "gemini", "cline",
                                               "cody", "windsurf"}
                     THEN (IF LineEnd(t, i) < Len(t) THEN LineEnd(t, i) + 1
                           ELSE LineEnd(t, i))
                     ELSE 0]
        removed_lines == findall(t, ends)
        cleaned == collapse_blank_lines(sub(t, ends))
    IN  <<terminate(cleaned), removed_lines>>

remove_coauthor(t) ==
    LET ends == [i \in 1..Len(t) |-> ai_coauthor_pattern(t, i)]
        removed_lines == findall(t, ends)
        cleaned == collapse_blank_lines(sub(t, ends))
    IN  <<terminate(cleaned), removed_lines>>

(***************************************************************************)
(* remove_branding                                                         *)
(***************************************************************************)
BrandingTools == {"claude", "ai", "copilot", "cline", "cursor", "aider"}

LinkLabels == {<<"claude", " ", "code">>, <<"claude">>, <<"copilot">>,
               <<"ai">>, <<"cline">>, <<"cursor">>, <<"aider">>}

\* the three alternatives of the marker group, as the source file spells them
EmojiMarkers == {"MOJI"}

HasBrandingTool(a) == Fold(a) \in BrandingTools

\* Generated with.*(?:Claude|AI|...).*  with IGNORECASE
plain_generated_pattern(t, i) ==
    IF /\ Fold(t[i]) = "generated with"
       /\ \E j \in (i + 1)..LineEnd(t, i) : HasBrandingTool(t[j])
    THEN LineEnd(t, i) ELSE 0

\* first position at or after i that holds no whitespace (\s*)
RECURSIVE SkipSpace(_, _)
SkipSpace(t, i) ==
    IF i <= Len(t) /\ IsSpace(t[i]) THEN SkipSpace(t, i + 1) ELSE i

\* (?:marker)\s*Generated with.*(?:Claude|AI|...).*  with IGNORECASE
emoji_generated_pattern(t, i) ==
    LET g == SkipSpace(t, i + 1)
    IN  IF t[i] \in EmojiMarkers /\ g <= Len(t)
        THEN plain_generated_pattern(t, g)
        ELSE 0

\* first position at or after i that holds ")", or 0  ([^)]*\))
RECURSIVE CloseParen(_, _)
CloseParen(t, i) ==
    IF i > Len(t) THEN 0
    ELSE IF t[i] = ")" THEN i
    ELSE CloseParen(t, i + 1)

\* a link pattern that takes any one-word label: \[[^\]]*\]\([^)]*\)
markdown_link_any_label(t, i) ==
    IF /\ t[i] = "["
       /\ i + 2 <= Len(t)
       /\ t[i + 2] = "]("
    THEN CloseParen(t, i + 3) ELSE 0

\* \[(?:Claude Code|Claude|...)\]\([^)]*\)  with IGNORECASE
markdown_link_pattern(t, i) ==
    IF t[i] # "[" THEN 0
    ELSE LET fits(l) ==
                 /\ i + Len(l) + 1 <= Len(t)
                 /\ \A k \in 1..Len(l) : Fold(t[i + k]) = l[k]
                 /\ t[i + Len(l) + 1] = "]("
                 /\ CloseParen(t, i + Len(l) + 2) # 0
             ls == {l \in LinkLabels : fits(l)}
         IN  IF ls = {} THEN 0
             ELSE LET l == CHOOSE l \in ls : TRUE
                  IN  CloseParen(t, i + Len(l) + 2)

remove_branding(t) ==
    LET e1 == [i \in 1..Len(t) |-> emoji_generated_pattern(t, i)]
        m1 == findall(t, e1)
        c1 == sub(t, e1)
        e2 == [i \in 1..Len(c1) |-> plain_generated_pattern(c1, i)]
        m2 == findall(c1, e2)
        c2 == sub(c1, e2)
        e3 == [i \in 1..Len(c2) |-> markdown_link_pattern(c2, i)]
        m3 == findall(c2, e3)
        c3 == sub(c2, e3)
        cleaned == collapse_blank_lines(c3)
    IN  <<terminate(cleaned), m1 \o m2 \o m3>>

(***************************************************************************)
(* sanitize_commit_message                                                 *)
(***************************************************************************)
\* the branding pass runs whatever keep_branding says
sanitize_without_keep_branding(t, kc, kb) ==
    LET co == IF ~kc THEN remove_coauthor(t) ELSE <<t, <<>>>>
        br == remove_branding(co[1])
    IN  <<br[1], [coauthor |-> co[2], branding |-> br[2]]>>

\* each flag switches the other pass off
sanitize_flags_swapped(t, kc, kb) ==
    LET co == IF ~kb THEN remove_coauthor(t) ELSE <<t, <<>>>>
        br == IF ~kc THEN remove_branding(co[1]) ELSE <<co[1], <<>>>>
    IN  <<br[1], [coauthor |-> co[2], branding |-> br[2]]>>

sanitize_commit_message(t, kc, kb) ==
    LET co == IF ~kc THEN remove_coauthor(t) ELSE <<t, <<>>>>
        br == IF ~kb THEN remove_branding(co[1]) ELSE <<co[1], <<>>>>
    IN  <<br[1], [coauthor |-> co[2], branding |-> br[2]]>>

(***************************************************************************)
(* Commit messages the model feeds to the hook: up to MaxPieces pieces.    *)
(***************************************************************************)
Pieces ==
    { <<NL>>, <<SP>>, <<"Jane">>,
      <<"Co-Authored-By:", SP, "claude">>,
      <<"Co-Authored-By:", SP, "Jane">>,
      <<"Generated with">>, <<"AI">>,
      <<"MOJI">>, <<"ROBOT">>,
      <<"[", "Claude", SP, "Code", "](", "Jane", ")">>,
      <<"[", "Jane", "](", "Jane", ")">> }

RECURSIVE TextsOf(_)
TextsOf(n) ==
    IF n = 0 THEN {<<>>}
    ELSE LET S == TextsOf(n - 1) IN S \cup {s \o p : s \in S, p \in Pieces}

Texts == TextsOf(MaxPieces)

NoRemoved == [coauthor |-> <<>>, branding |-> <<>>]

(***************************************************************************)
(* The sanitizer as a state machine: a message is sanitized under some     *)
(* flags, and the hook may run again on the message it produced.           *)
(***************************************************************************)
\* args.commit_msg_file: no path given, or the path git hands to the hook
None == "None"

CommitMsgPath == ".git/COMMIT_EDITMSG"

NoFile == [exists |-> FALSE, content |-> <<>>]

\* no run of main is under way
MainIdle ==
    /\ mpc = "idle"
    /\ args = [keep_coauthor |-> FALSE, keep_branding |-> FALSE,
               verbose |-> FALSE, commit_msg_file |-> None]
    /\ file = NoFile /\ stdin = <<>> /\ stdout = <<>> /\ stderr = <<>>
    /\ status = -1
    /\ original_message = <<>> /\ cleaned_message = <<>>
    /\ main_removed = NoRemoved

Init ==
    /\ text \in Texts
    /\ keep_coauthor = FALSE /\ keep_branding = FALSE
    /\ result = <<>> /\ removed = NoRemoved
    /\ pc = "start" /\ rerun = FALSE
    /\ MainIdle

Sanitize(kc, kb) ==
    /\ pc = "start"
    /\ LET r == sanitize_commit_message(text, kc, kb)
       IN  result' = r[1] /\ removed' = r[2]
    /\ keep_coauthor' = kc /\ keep_branding' = kb
    /\ pc' = "done"
    /\ UNCHANGED <<text, rerun>>
    /\ UNCHANGED mainVars

\* the hook runs again, with the default options, on the message that a
\* default run produced (git runs commit-msg again when a commit is amended)
Rerun ==
    /\ pc = "done" /\ ~rerun
    /\ ~keep_coauthor /\ ~keep_branding
    /\ text' = result
    /\ LET r == sanitize_commit_message(result, FALSE, FALSE)
       IN  result' = r[1] /\ removed' = r[2]
    /\ rerun' = TRUE
    /\ UNCHANGED <<keep_coauthor, keep_branding, pc>>
    /\ UNCHANGED mainVars

Next ==
    \/ \E kc \in BOOLEAN, kb \in BOOLEAN : Sanitize(kc, kb)
    \/ Rerun

Spec == Init /\ [][Next]_vars

(***************************************************************************)
(* The same machine fed with messages made of whole lines: up to MaxLines  *)
(* lines, so that a line can stand between two others.                     *)
(***************************************************************************)
LinePieces ==
    { <<"Jane", NL>>, <<"Jane", SP, NL>>, <<"Jane">>, <<NL>>,
      <<"Co-Authored-By:", SP, "claude", NL>>,
      <<"Co-Authored-By:", SP, "Jane", NL>>,
      <<"Generated with", SP, "AI", NL>> }

RECURSIVE LineTextsOf(_)
LineTextsOf(n) ==
    IF n = 0 THEN {<<>>}
    ELSE LET S == LineTextsOf(n - 1)
         IN  S \cup {s \o p : s \in S, p \in LinePieces}

LineTexts == LineTextsOf(MaxLines)

LineInit ==
    /\ text \in LineTexts
    /\ keep_coauthor = FALSE /\ keep_branding = FALSE
    /\ result = <<>> /\ removed = NoRemoved
    /\ pc = "start" /\ rerun = FALSE
    /\ MainIdle

LineSpec == LineInit /\ [][Next]_vars

(***************************************************************************)
(* _print_feedback: the lines it prints to stderr.  A line is a record of  *)
(* its kind and its variable part.                                         *)
(***************************************************************************)
\* the branding category is reported before the coauthor category
print_feedback_branding_first(rem, verbose) ==
    LET coauthor_count == Len(rem.coauthor)
        branding_count == Len(rem.branding)
        item(x) == [kind |-> "  - ", body |-> x]
        removed_parts ==
            (IF branding_count > 0 THEN <<"branding">> ELSE <<>>)
                \o (IF coauthor_count > 0 THEN <<"AI co-author">> ELSE <<>>)
    IN  IF coauthor_count = 0 /\ branding_count = 0 THEN <<>>
        ELSE IF verbose
        THEN <<[kind |-> "de-ai-agent: Removed:", body |-> <<>>]>>
                 \o [k \in 1..branding_count |-> item(rem.branding[k])]
                 \o [k \in 1..coauthor_count |-> item(rem.coauthor[k])]
        ELSE <<[kind |-> "de-ai-agent: Removed ", body |-> removed_parts]>>

print_feedback(rem, verbose) ==
    LET coauthor_count == Len(rem.coauthor)
        branding_count == Len(rem.branding)
        item(x) == [kind |-> "  - ", body |-> x]
        removed_parts ==
            (IF coauthor_count > 0 THEN <<"AI co-author">> ELSE <<>>)
                \o (IF branding_count > 0 THEN <<"branding">> ELSE <<>>)
    IN  IF coauthor_count = 0 /\ branding_count = 0 THEN <<>>
        ELSE IF verbose
        THEN <<[kind |-> "de-ai-agent: Removed:", body |-> <<>>]>>
                 \o [k \in 1..coauthor_count |-> item(rem.coauthor[k])]
                 \o [k \in 1..branding_count |-> item(rem.branding[k])]
        ELSE <<[kind |-> "de-ai-agent: Removed ", body |-> removed_parts]>>

\* print(f"Error: Commit message file not found: {commit_msg_file}")
NotFoundLine(path) ==
    [kind |-> "Error: Commit message file not found: ", body |-> <<path>>]

(***************************************************************************)
(* main as a state machine.                                                *)
(***************************************************************************)
MainTexts == TextsOf(MaxMainPieces)

SanIdle ==
    /\ text = <<>> /\ keep_coauthor = FALSE /\ keep_branding = FALSE
    /\ result = <<>> /\ removed = NoRemoved
    /\ pc = "idle" /\ rerun = FALSE

\* parser.parse_args(): the flags, and the path when git gives one; the
\* message waits in the file (which may not exist) or on standard input
MainInit ==
    /\ args \in [keep_coauthor : BOOLEAN, keep_branding : BOOLEAN,
                 verbose : BOOLEAN, commit_msg_file : {None, CommitMsgPath}]
    /\ IF args.commit_msg_file = None
       THEN file = NoFile /\ stdin \in MainTexts
       ELSE /\ file \in {NoFile}
                    \cup {[exists |-> TRUE, content |-> m] : m \in MainTexts}
            /\ stdin = <<>>
    /\ mpc = "start"
    /\ stdout = <<>> /\ stderr = <<>> /\ status = -1
    /\ original_message = <<>> /\ cleaned_message = <<>>
    /\ main_removed = NoRemoved
    /\ SanIdle

\* text = sys.stdin.read()
ReadStdin ==
    /\ mpc = "start" /\ args.commit_msg_file = None
    /\ original_message' = stdin
    /\ mpc' = "sanitize"
    /\ UNCHANGED <<args, file, stdin, stdout, stderr, status,
                   cleaned_message, main_removed>>
    /\ UNCHANGED sanVars

\* original_message = commit_msg_file.read_text(encoding="utf-8")
ReadFile ==
    /\ mpc = "start" /\ args.commit_msg_file # None
    /\ file.exists
    /\ original_message' = file.content
    /\ mpc' = "sanitize"
    /\ UNCHANGED <<args, file, stdin, stdout, stderr, status,
                   cleaned_message, main_removed>>
    /\ UNCHANGED sanVars

\* the missing file is reported, and the run still returns 0
FileNotFoundReturnsZero ==
    /\ mpc = "start" /\ args.commit_msg_file # None
    /\ ~file.exists
    /\ stderr' = Append(stderr, NotFoundLine(args.commit_msg_file))
    /\ status' = 0
    /\ mpc' = "done"
    /\ UNCHANGED <<args, file, stdin, stdout, original_message,
                   cleaned_message, main_removed>>
    /\ UNCHANGED sanVars

\* except FileNotFoundError: print the error to stderr, return 1
FileNotFound ==
    /\ mpc = "start" /\ args.commit_msg_file # None
    /\ ~file.exists
    /\ stderr' = Append(stderr, NotFoundLine(args.commit_msg_file))
    /\ status' = 1
    /\ mpc' = "done"
    /\ UNCHANGED <<args, file, stdin, stdout, original_message,
                   cleaned_message, main_removed>>
    /\ UNCHANGED sanVars

\* cleaned, removed = sanitize_commit_message(..., keep_coauthor=...,
\* keep_branding=...)
SanitizeMessage ==
    /\ mpc = "sanitize"
    /\ LET r == sanitize_commit_message(original_message, args.keep_coauthor,
                                        args.keep_branding)
       IN  cleaned_message' = r[1] /\ main_removed' = r[2]
    /\ mpc' = "write"
    /\ UNCHANGED <<args, file, stdin, stdout, stderr, status,
                   original_message>>
    /\ UNCHANGED sanVars

\* sys.stdout.write(cleaned)
WriteStdout ==
    /\ mpc = "write" /\ args.commit_msg_file = None
    /\ stdout' = stdout \o cleaned_message
    /\ mpc' = "feedback"
    /\ UNCHANGED <<args, file, stdin, stderr, status, original_message,
                   cleaned_message, main_removed>>
    /\ UNCHANGED sanVars

\* commit_msg_file.write_text(cleaned_message, encoding="utf-8")
WriteFile ==
    /\ mpc = "write" /\ args.commit_msg_file # None
    /\ file' = [exists |-> TRUE, content |-> cleaned_message]
    /\ mpc' = "feedback"
    /\ UNCHANGED <<args, stdin, stdout, stderr, status, original_message,
                   cleaned_message, main_removed>>
    /\ UNCHANGED sanVars

\* _print_feedback(removed, args.verbose); return 0
PrintFeedback ==
    /\ mpc = "feedback"
    /\ stderr' = stderr \o print_feedback(main_removed, args.verbose)
    /\ status' = 0
    /\ mpc' = "done"
    /\ UNCHANGED <<args, file, stdin, stdout, original_message,
                   cleaned_message, main_removed>>
    /\ UNCHANGED sanVars

MainNext ==
    \/ ReadStdin
    \/ ReadFile
    \/ FileNotFound
    \/ SanitizeMessage
    \/ WriteStdout
    \/ WriteFile
    \/ PrintFeedback

MainSpec == MainInit /\ [][MainNext]_vars

(***************************************************************************)
(* Shapes of a message that the claims speak of.                           *)
(***************************************************************************)
\* empty, or ending in exactly one newline that follows a non-whitespace atom
WellTerminated(t) ==
    \/ t = <<>>
    \/ /\ Len(t) >= 2
       /\ t[Len(t)] = NL
       /\ ~IsSpace(t[Len(t) - 1])

\* a run of three or more consecutive newlines
HasTripleNewline(t) ==
    \E i \in 1..(Len(t) - 2) : t[i] = NL /\ t[i + 1] = NL /\ t[i + 2] = NL

\* no pattern of the hook matches anywhere in t
NoMatch(t) ==
    \A i \in 1..Len(t) :
        /\ ai_coauthor_pattern(t, i) = 0
        /\ emoji_generated_pattern(t, i) = 0
        /\ plain_generated_pattern(t, i) = 0
        /\ markdown_link_pattern(t, i) = 0

Default == ~keep_coauthor /\ ~keep_branding

BothKept == keep_coauthor /\ keep_branding

(***************************************************************************)
(* C1: sanitizing, with the default options, a message that a default run  *)
(* produced returns that message unchanged and removes nothing.            *)
(***************************************************************************)
C1_Idempotent ==
    (pc = "done" /\ rerun) => (result = text /\ removed = NoRemoved)

(***************************************************************************)
(* C2: with keep_coauthor and keep_branding both set the text is returned  *)
(* exactly as given and both removal lists are empty.                      *)
(***************************************************************************)
C2_Verbatim ==
    (pc = "done" /\ BothKept) => (result = text /\ removed = NoRemoved)

C2_Witness ==
    /\ pc = "done" /\ BothKept /\ ~rerun
    /\ result = text
    /\ ~WellTerminated(text) /\ HasTripleNewline(text)

(***************************************************************************)
(* C3 as stated: under every combination of the flags the returned text is *)
(* empty or ends in exactly one newline that follows a non-whitespace      *)
(* character.                                                              *)
(***************************************************************************)
C3_Original ==
    pc = "done" => WellTerminated(result)

(***************************************************************************)
(* C3 amended: the same, for every combination of the flags in which at    *)
(* least one pass runs.                                                    *)
(***************************************************************************)
C3_Terminated ==
    (pc = "done" /\ ~BothKept) => WellTerminated(result)

C3_Witness ==
    /\ pc = "done" /\ ~BothKept /\ ~rerun
    /\ ~WellTerminated(text) /\ IsSpace(text[Len(text)])
    /\ result # <<>>

(***************************************************************************)
(* C6 as stated: under every combination of the flags the returned text    *)
(* holds no run of three or more consecutive newlines.                     *)
(***************************************************************************)
C6_Original ==
    pc = "done" => ~HasTripleNewline(result)

(***************************************************************************)
(* C6 amended: the same, for every combination of the flags in which at    *)
(* least one pass runs.                                                    *)
(***************************************************************************)
C6_Collapsed ==
    (pc = "done" /\ ~BothKept) => ~HasTripleNewline(result)

C6_Witness ==
    /\ pc = "done" /\ ~BothKept /\ ~rerun
    /\ HasTripleNewline(text)
    /\ \E i \in 1..Len(result) : ~IsSpace(result[i]) /\ i > 2

(***************************************************************************)
(* C7 as stated: a text that no pattern matches is returned by             *)
(* remove_coauthor, by remove_branding and by the default sanitize exactly *)
(* as given, with empty removal lists.                                     *)
(***************************************************************************)
C7_Original ==
    (pc = "done" /\ ~rerun /\ ~BothKept /\ NoMatch(text))
        => (result = text /\ removed = NoRemoved)

(***************************************************************************)
(* C7 amended: a text that no pattern matches is returned with nothing but *)
(* its whitespace normalised (runs of three or more newlines collapsed to  *)
(* two, trailing whitespace trimmed, one newline appended when anything    *)
(* remains), with empty removal lists.                                     *)
(***************************************************************************)
C7_OnlyNormalised ==
    (pc = "done" /\ ~rerun /\ ~BothKept /\ NoMatch(text))
        => /\ result = terminate(collapse_blank_lines(text))
           /\ removed = NoRemoved

C7_Witness ==
    /\ pc = "done" /\ ~rerun /\ Default /\ NoMatch(text)
    /\ \E i \in 1..Len(text) : Fold(text[i]) = "co-authored-by:"
    /\ \E i \in 1..Len(text) : text[i] = "["
    /\ result = text

(***************************************************************************)
(* Lines, trailers and links of a message, as the claims speak of them.    *)
(***************************************************************************)
\* t.split("\n")
RECURSIVE LinesFrom(_, _)
LinesFrom(t, i) ==
    LET e == LineEnd(t, i)
    IN  IF e >= Len(t) THEN <<SubSeq(t, i, e)>>
        ELSE <<SubSeq(t, i, e)>> \o LinesFrom(t, e + 2)

Lines(t) == LinesFrom(t, 1)

\* index of the first atom of the line that holds position i
RECURSIVE LineStart(_, _)
LineStart(t, i) ==
    IF i <= 1 \/ t[i - 1] = NL THEN i ELSE LineStart(t, i - 1)

\* a is a subsequence of b: the elements of a occur in b, in order
RECURSIVE IsSubseq(_, _)
IsSubseq(a, b) ==
    IF a = <<>> THEN TRUE
    ELSE IF b = <<>> THEN FALSE
    ELSE IF Head(a) = Head(b) THEN IsSubseq(Tail(a), Tail(b))
    ELSE IsSubseq(a, Tail(b))

\* s occurs in t as a run of consecutive atoms
Occurs(s, t) ==
    \E i \in 0..(Len(t) - Len(s)) : SubSeq(t, i + 1, i + Len(s)) = s

IsTrailer(l) == l # <<>> /\ Fold(l[1]) = "co-authored-by:"

\* a Co-Authored-By: line that names an AI agent
IsAITrailer(l) == IsTrailer(l) /\ \E j \in 2..Len(l) : HasCoauthorName(l[j])

IsHumanTrailer(l) == IsTrailer(l) /\ ~IsAITrailer(l)

AITrailers(t) == SelectSeq(Lines(t), IsAITrailer)

HumanTrailers(t) == SelectSeq(Lines(t), IsHumanTrailer)

Stripped(ls) == [k \in 1..Len(ls) |-> rstrip(ls[k])]

\* the line that holds position i
LineOf(t, i) == SubSeq(t, LineStart(t, i), LineEnd(t, i))

\* some branding sub-pattern matches somewhere in t
HasBranding(t) ==
    \E i \in 1..Len(t) :
        \/ plain_generated_pattern(t, i) # 0
        \/ emoji_generated_pattern(t, i) # 0
        \/ markdown_link_pattern(t, i) # 0

\* position of the "](" that closes the label opened at i, or 0
RECURSIVE LabelEnd(_, _)
LabelEnd(t, i) ==
    IF i > Len(t) \/ t[i] = "[" THEN 0
    ELSE IF t[i] = "](" THEN i
    ELSE LabelEnd(t, i + 1)

\* last position of the markdown link [label](url) that starts at i and
\* whose label is none of the recognized tool names, or 0
OtherLinkEnd(t, i) ==
    IF t[i] # "[" THEN 0
    ELSE LET k == LabelEnd(t, i + 1)
         IN  IF k = 0 \/ k = i + 1 THEN 0
             ELSE IF [j \in 1..(k - i - 1) |-> Fold(t[i + j])] \in LinkLabels
                  THEN 0
                  ELSE CloseParen(t, k + 1)

\* "[label](" with a recognized tool name as label starts at i
AILinkOpens(t, i) ==
    /\ t[i] = "["
    /\ LabelEnd(t, i + 1) # 0
    /\ [j \in 1..(LabelEnd(t, i + 1) - i - 1) |-> Fold(t[i + j])] \in LinkLabels

C5_Original ==
    (pc = "done" /\ ~rerun /\ ~keep_branding)
        => \A i \in 1..Len(text) :
               OtherLinkEnd(text, i) # 0
                   => LET link == SubSeq(text, i, OtherLinkEnd(text, i))
                      IN  /\ Occurs(link, result)
                          /\ \A k \in 1..Len(removed.branding) :
                                 ~Occurs(link, removed.branding[k])

\* the link at i..e lies within one line, in no place that another match
\* can swallow
OutsideMatches(t, i, e) ==
    /\ e <= LineEnd(t, i)
    /\ \A j \in LineStart(t, i)..e : Fold(t[j]) # "generated with"
    /\ \A j \in 1..e : j # i => ~AILinkOpens(t, j)
    /\ ~IsAITrailer(LineOf(t, i))

(***************************************************************************)
(* C5 amended: remove_branding and the default sanitize leave in the text  *)
(* every markdown link that lies within one line and whose label is not a  *)
(* recognized tool name, provided no "Generated with" stands before it on  *)
(* its line or inside it, no link with a recognized label opens before its *)
(* end, and its line is not an AI Co-Authored-By line; when every such     *)
(* link of the text is so placed, none stands in the branding record.      *)
(***************************************************************************)
C5_OtherLinksKept ==
    (pc = "done" /\ ~rerun /\ ~keep_branding)
        => LET others == {i \in 1..Len(text) : OtherLinkEnd(text, i) # 0}
               link(i) == SubSeq(text, i, OtherLinkEnd(text, i))
               outside(i) == OutsideMatches(text, i, OtherLinkEnd(text, i))
           IN  /\ \A i \in others : outside(i) => Occurs(link(i), result)
               /\ (\A i \in others : outside(i))
                      => \A i \in others :
                             \A k \in 1..Len(removed.branding) :
                                 ~Occurs(link(i), removed.branding[k])

C5_Witness ==
    /\ pc = "done" /\ ~rerun /\ ~keep_branding
    /\ removed.branding # <<>>
    /\ \E i \in 1..Len(text) :
           /\ OtherLinkEnd(text, i) # 0
           /\ OutsideMatches(text, i, OtherLinkEnd(text, i))
           /\ Occurs(SubSeq(text, i, OtherLinkEnd(text, i)), result)

\* the elements of a finite set of integers, in increasing order
RECURSIVE Ascending(_)
Ascending(S) ==
    IF S = {} THEN <<>>
    ELSE LET m == CHOOSE x \in S : \A y \in S : x <= y
         IN  <<m>> \o Ascending(S \ {m})

\* the spans of t that a branding sub-pattern matches, as <<first, last>>
BrandingSpans(t) ==
    {<<i, emoji_generated_pattern(t, i)>> : i \in 1..Len(t)}
        \cup {<<i, plain_generated_pattern(t, i)>> : i \in 1..Len(t)}
        \cup {<<i, markdown_link_pattern(t, i)>> : i \in 1..Len(t)}

\* first positions of the AI trailer lines of t
AITrailerStarts(t) ==
    {i \in 1..Len(t) : LineStart(t, i) = i /\ IsAITrailer(LineOf(t, i))}

(***************************************************************************)
(* C8 as stated: with keep_coauthor alone the coauthor list is empty,      *)
(* every AI trailer line of the input is a line of the output and branding *)
(* is still removed; with keep_branding alone the branding list is empty,  *)
(* every branding span of the input stands in the output and the AI        *)
(* trailer lines are still removed.  (Lines and spans are compared without *)
(* their trailing whitespace.)                                             *)
(***************************************************************************)
C8_Original ==
    /\ (pc = "done" /\ ~rerun /\ keep_coauthor /\ ~keep_branding)
           => /\ removed.coauthor = <<>>
              /\ IsSubseq(Stripped(AITrailers(text)), Stripped(Lines(result)))
              /\ HasBranding(text) => removed.branding # <<>>
    /\ (pc = "done" /\ ~rerun /\ ~keep_coauthor /\ keep_branding)
           => /\ removed.branding = <<>>
              /\ \A sp \in BrandingSpans(text) :
                     sp[2] # 0
                         => Occurs(rstrip(SubSeq(text, sp[1], sp[2])), result)
              /\ removed.coauthor = AITrailers(text)

\* the AI trailer line that starts at i holds no "Generated with" and no
\* marker of the emoji pattern, and no link with a recognized label opens
\* before its end
TrailerOutsideBranding(t, i) ==
    /\ \A j \in i..LineEnd(t, i) :
           Fold(t[j]) # "generated with" /\ t[j] \notin EmojiMarkers
    /\ \A j \in 1..LineEnd(t, i) : ~AILinkOpens(t, j)

(***************************************************************************)
(* C8 amended: with keep_coauthor alone the coauthor list is empty,        *)
(* branding is still removed, and every AI trailer line that no branding   *)
(* match can reach (no "Generated with" and no marker of the emoji pattern  *)
(* in it, no link with a recognized label opening before its end) is a     *)
(* line of the output, in order; with                                      *)
(* keep_branding alone the branding list is empty, the AI trailer lines    *)
(* are still removed, and every branding span that lies within one line    *)
(* which is not an AI trailer line stands in the output.  (Compared        *)
(* without trailing whitespace.)                                           *)
(***************************************************************************)
C8_FlagsIndependent ==
    /\ (pc = "done" /\ ~rerun /\ keep_coauthor /\ ~keep_branding)
           => /\ removed.coauthor = <<>>
              /\ LET kept == Ascending({i \in AITrailerStarts(text) :
                                            TrailerOutsideBranding(text, i)})
                 IN  IsSubseq([k \in 1..Len(kept) |->
                                   rstrip(LineOf(text, kept[k]))],
                              Stripped(Lines(result)))
              /\ HasBranding(text) => removed.branding # <<>>
    /\ (pc = "done" /\ ~rerun /\ ~keep_coauthor /\ keep_branding)
           => /\ removed.branding = <<>>
              /\ \A sp \in BrandingSpans(text) :
                     (/\ sp[2] # 0
                      /\ sp[2] <= LineEnd(text, sp[1])
                      /\ ~IsAITrailer(LineOf(text, sp[1])))
                         => Occurs(rstrip(SubSeq(text, sp[1], sp[2])), result)
              /\ removed.coauthor = AITrailers(text)

C8_Witness ==
    /\ pc = "done" /\ ~rerun /\ keep_coauthor /\ ~keep_branding
    /\ removed.branding # <<>>
    /\ \E i \in AITrailerStarts(text) :
           /\ TrailerOutsideBranding(text, i)
           /\ Occurs(LineOf(text, i), result)

\* the emoji markers the specification names, as the tests write them
Emoji == {"ROBOT"}

\* an optional emoji, "Generated with", and a tool name later on the line
IsBrandingLine(l) ==
    /\ l # <<>>
    /\ LET g == IF l[1] \in Emoji THEN SkipSpace(l, 2) ELSE 1
       IN  /\ g <= Len(l)
           /\ Fold(l[g]) = "generated with"
           /\ \E j \in (g + 1)..Len(l) : HasBrandingTool(l[j])

\* the lines of t, without the empty piece that follows a final newline
BodyLines(t) ==
    LET ls == Lines(t)
    IN  IF ls[Len(ls)] = <<>> THEN SubSeq(ls, 1, Len(ls) - 1) ELSE ls

OnlyPollution(t) ==
    /\ BodyLines(t) # <<>>
    /\ \A k \in 1..Len(BodyLines(t)) :
           IsAITrailer(BodyLines(t)[k]) \/ IsBrandingLine(BodyLines(t)[k])

(***************************************************************************)
(* C9: a message every line of which is an AI trailer line or an AI        *)
(* branding line (an optional emoji, "Generated with", a tool name)        *)
(* sanitizes, under the default options, to the empty string, and every    *)
(* removed line is listed in its category of the record.  (Lines are       *)
(* compared without their trailing whitespace.)                            *)
(***************************************************************************)
C9_OnlyPollution ==
    (pc = "done" /\ ~rerun /\ Default /\ OnlyPollution(text))
        => /\ result = <<>>
           /\ removed.coauthor = AITrailers(text)
           /\ \A k \in 1..Len(BodyLines(text)) :
                  IsBrandingLine(BodyLines(text)[k])
                      => \E m \in 1..Len(removed.branding) :
                             rstrip(removed.branding[m])
                                 = rstrip(BodyLines(text)[k])

\* the destination of this run (the file, or standard output) holds the
\* sanitized message
Written ==
    IF args.commit_msg_file = None
    THEN stdout = cleaned_message
    ELSE file = [exists |-> TRUE, content |-> cleaned_message]

\* the run was given a path and found no file there
MissingRun == args.commit_msg_file # None /\ ~file.exists

(***************************************************************************)
(* C10: a run of main that is given a path and finds no file reports the   *)
(* path on stderr, returns a non-zero status, writes no file and prints no *)
(* removal feedback; every other run writes the sanitized text to where    *)
(* the message came from (the file, or standard output) before it prints   *)
(* feedback, and returns 0.                                                *)
(***************************************************************************)
C10_MissingFile ==
    /\ (mpc = "done" /\ MissingRun)
           => /\ status # 0
              /\ stderr = <<NotFoundLine(args.commit_msg_file)>>
              /\ stdout = <<>>
    /\ (mpc = "done" /\ ~MissingRun)
           => /\ status = 0
              /\ Written
              /\ cleaned_message
                     = sanitize_commit_message(original_message,
                                               args.keep_coauthor,
                                               args.keep_branding)[1]
              /\ args.commit_msg_file = None => original_message = stdin
              /\ stderr = print_feedback(main_removed, args.verbose)
    /\ (mpc = "feedback") => (Written /\ stderr = <<>>)
    /\ (mpc \in {"start", "sanitize", "write"}) => stderr = <<>>

C10_Witness ==
    /\ mpc = "done" /\ MissingRun
    /\ status = 1
    /\ stderr # <<>>

(***************************************************************************)
(* C11: _print_feedback writes nothing exactly when both lists of the      *)
(* record are empty; without --verbose it writes one summary line naming   *)
(* just the categories that had a removal, "AI co-author" before           *)
(* "branding"; with --verbose it writes, after its heading, one item line  *)
(* per removed entry, the coauthor entries before the branding entries;    *)
(* all of it goes to stderr and standard output holds only the message.    *)
(***************************************************************************)
\* the elements of a sequence
Range(s) == {s[k] : k \in 1..Len(s)}

\* the variable parts of the item lines printed after the heading
ItemBodies == [k \in 1..(Len(stderr) - 1) |-> stderr[k + 1].body]

C11_Feedback ==
    /\ (mpc = "done" /\ ~MissingRun)
           => /\ (stderr = <<>>)
                     <=> (main_removed.coauthor = <<>>
                              /\ main_removed.branding = <<>>)
              /\ (~args.verbose /\ stderr # <<>>)
                     => /\ Len(stderr) = 1
                        /\ stderr[1].kind = "de-ai-agent: Removed "
                        /\ Range(stderr[1].body)
                               \subseteq {"AI co-author", "branding"}
                        /\ ("AI co-author" \in Range(stderr[1].body))
                               <=> main_removed.coauthor # <<>>
                        /\ ("branding" \in Range(stderr[1].body))
                               <=> main_removed.branding # <<>>
                        /\ Len(stderr[1].body)
                               = Cardinality(Range(stderr[1].body))
                        /\ Len(stderr[1].body) = 2
                               => stderr[1].body[1] = "AI co-author"
              /\ (args.verbose /\ stderr # <<>>)
                     => /\ stderr[1].kind = "de-ai-agent: Removed:"
                        /\ \A k \in 2..Len(stderr) : stderr[k].kind = "  - "
                        /\ ItemBodies
                               = main_removed.coauthor
                                     \o main_removed.branding
    /\ (mpc \in {"feedback", "done"} /\ ~MissingRun)
           => stdout = IF args.commit_msg_file = None
                       THEN cleaned_message ELSE <<>>

C11_Witness ==
    /\ mpc = "done" /\ ~MissingRun
    /\ args.verbose
    /\ main_removed.coauthor # <<>> /\ main_removed.branding # <<>>
    /\ main_removed.coauthor # main_removed.branding
    /\ Len(stderr) = 3

(***************************************************************************)
(* C12: remove_coauthor deletes each matched line together with its line   *)
(* terminator: when a matched AI trailer stands between two other lines    *)
(* that hold text, those two lines are adjacent in the output.             *)
(***************************************************************************)
\* the line holds a character that is not whitespace
HoldsText(l) == \E k \in 1..Len(l) : ~IsSpace(l[k])

\* a line of the input that remove_coauthor leaves in the message
Survives(l) == HoldsText(l) /\ ~IsAITrailer(l)

\* indices, in order, of the positions from k on that marks holds TRUE at
RECURSIVE IndicesFrom(_, _)
IndicesFrom(marks, k) ==
    IF k > Len(marks) THEN <<>>
    ELSE (IF marks[k] THEN <<k>> ELSE <<>>) \o IndicesFrom(marks, k + 1)

\* indices of the lines of ls that survive
SurvivorsOf(ls) == IndicesFrom([k \in 1..Len(ls) |-> Survives(ls[k])], 1)

\* indices of the lines of ls that hold text
TextLinesOf(ls) == IndicesFrom([k \in 1..Len(ls) |-> HoldsText(ls[k])], 1)

\* the run applied remove_coauthor and nothing else
CoauthorOnly == pc = "done" /\ ~rerun /\ ~keep_coauthor /\ keep_branding

\* line k of the input is a matched trailer between two surviving lines
Between(ls, k) ==
    /\ 1 < k /\ k < Len(ls)
    /\ IsAITrailer(ls[k])
    /\ Survives(ls[k - 1]) /\ Survives(ls[k + 1])

\* distance, in lines of the output, between what the output keeps of lines
\* k - 1 and k + 1 of the input: the surviving lines keep their order, so
\* the j-th of the input is the j-th line of the output that holds text
Gap(k) ==
    LET ls == Lines(text)
        before == SurvivorsOf(SubSeq(ls, 1, k - 1))
        out == TextLinesOf(Lines(result))
    IN  out[Len(before) + 1] - out[Len(before)]

\* the surviving lines of the input are the lines of the output that hold
\* text, in the same order (the last one trimmed)
SameSurvivors ==
    Stripped(SelectSeq(Lines(text), Survives))
        = Stripped(SelectSeq(Lines(result), HoldsText))

\* the claim as stated: the two neighbours are adjacent in the output
C12_Original ==
    CoauthorOnly
        => \A k \in 1..Len(Lines(text)) :
               Between(Lines(text), k) => (SameSurvivors /\ Gap(k) = 1)

\* what the code does: the matched line's characters are deleted and its
\* newline stays, so exactly one blank line stands between the neighbours
C12_BlankLineStays ==
    CoauthorOnly
        => \A k \in 1..Len(Lines(text)) :
               Between(Lines(text), k)
                   => /\ SameSurvivors
                      /\ Gap(k) = 2
                      /\ Occurs(Lines(text)[k - 1] \o <<NL, NL>>
                                    \o rstrip(Lines(text)[k + 1]), result)

C12_Witness ==
    /\ CoauthorOnly
    /\ \E k \in 1..Len(Lines(text)) : Between(Lines(text), k)
    /\ removed.coauthor # <<>>
    /\ Occurs(<<"Jane", NL, NL, "Jane">>, result)

(***************************************************************************)
(* C13: the "Generated with" sub-patterns of remove_branding, emoji and    *)
(* plain, never span a line break: every span they remove lies within one  *)
(* line, and the lines that hold no removed span are kept as they are.     *)
(***************************************************************************)
\* the run applied remove_branding and nothing else
BrandingOnly == pc = "done" /\ ~rerun /\ keep_coauthor /\ ~keep_branding

\* a recorded span of the emoji or plain sub-pattern (a link opens with "[")
IsGeneratedSpan(e) ==
    e # <<>> /\ (e[1] \in EmojiMarkers \/ Fold(e[1]) = "generated with")

C13_WithinOneLine ==
    BrandingOnly
        => \A k \in 1..Len(removed.branding) :
               IsGeneratedSpan(removed.branding[k])
                   => NL \notin Range(removed.branding[k])

(***************************************************************************)
(* C14: sanitization only deletes characters.  Under every combination of  *)
(* the options the output of sanitize_commit_message, its final newline    *)
(* set aside, is a subsequence of the input: nothing is inserted, replaced *)
(* or reordered, and the one character ever added is a trailing newline.   *)
(***************************************************************************)
\* t without the newline it ends in, if it ends in one
WithoutFinalNewline(t) ==
    IF t # <<>> /\ t[Len(t)] = NL THEN SubSeq(t, 1, Len(t) - 1) ELSE t

C14_OnlyDeletes ==
    pc = "done"
        => /\ IsSubseq(WithoutFinalNewline(result), text)
           /\ Len(result) <= Len(text) + 1

C14_Witness ==
    /\ pc = "done" /\ ~rerun
    /\ removed.coauthor # <<>> /\ removed.branding # <<>>
    /\ result # <<>>
    /\ ~IsSubseq(result, text)

====
